---- MODULE Spec2Model ----
(***************************************************************************)
(* Model of quantum/plugins/cisco/n1kv/n1kv_client.py: the REST client of  *)
(* the Cisco Nexus1000V plugin.  One action per facade method of Client;   *)
(* each action is the whole blocking call: body construction, the          *)
(* _do_request round trip, and the interpretation of the VSM's answer.     *)
(*                                                                         *)
(* Python values are tagged records [type, val].  Strings built by         *)
(* concatenation or %-formatting (paths, "<name>_bd") are sequences of     *)
(* their pieces, so a path is compared piece by piece.                     *)
(***************************************************************************)
EXTENDS Integers, Sequences, FiniteSets, TLC

VARIABLES
    credentials,   \* the credential catalog (cdb / cred.Store); read only
    hosts,         \* Client.hosts
    vsm,           \* the answer the VSM gives to a request at present
    events_path,   \* Client.events_path as seen through self
    ncalls,        \* number of facade calls made so far
    call,          \* the last facade call: method name and arguments
    requests,      \* every HTTP request issued, in order: its call and host
    sent,          \* the request issued by the last call, if any
    response,      \* the VSM's answer consumed by the last call, if any
    result,        \* how the last call ended: return value or exception
    lookups        \* hosts whose credentials were read from cred.Store

vars == <<credentials, hosts, vsm, events_path, ncalls, call, requests, sent,
          response, result, lookups>>

\* ------------------------------------------------------------------ bounds
MaxCalls == 2

\* ----------------------------------------------------------- Python values
None == [type |-> "NoneType"]
PyStr(s) == [type |-> "str", val |-> s]
PyInt(n) == [type |-> "int", val |-> n]
PyList(s) == [type |-> "list", val |-> s]
PyDict(d) == [type |-> "dict", val |-> d]

\* Python truth value of an object (the test made by `if x:`).
Truthy(v) ==
    CASE v.type = "NoneType" -> FALSE
      [] v.type = "str" -> v.val # ""
      [] v.type = "int" -> v.val # 0
      [] OTHER -> DOMAIN v.val # {}

\* dict.update({k: v})
Update(d, k, v) == [f \in (DOMAIN d) \cup {k} |-> IF f = k THEN v ELSE d[f]]

\* template % args: each %s piece is replaced by the next argument.
RECURSIVE Format(_, _)
Format(template, args) ==
    IF template = <<>> THEN <<>>
    ELSE IF Head(template) = "%s"
         THEN <<Head(args)>> \o Format(Tail(template), Tail(args))
         ELSE <<Head(template)>> \o Format(Tail(template), args)

\* `needle in haystack` on a header value given by its pieces.
Contains(haystack, needle) == \E i \in DOMAIN haystack : haystack[i] = needle

\* ------------------------------------------------------- program constants
OK == 200
NO_CONTENT == 204
NOT_FOUND == 404
INTERNAL_SERVER_ERROR == 500
SERVICE_UNAVAILABLE == 503

TYPE_VLAN == "vlan"
TYPE_VXLAN == "vxlan"

format == "json"
action_prefix == "/api/n1k"

profiles_path == <<"/virtual-port-profile">>
network_segments_path == <<"/network-segment">>
network_segment_path == <<"/network-segment/", "%s">>
network_segment_pools_path == <<"/network-segment-pool">>
network_segment_pool_path == <<"/network-segment-pool/", "%s">>
ip_pools_path == <<"/ip-pool-template">>
ip_pool_path == <<"/ip-pool-template/", "%s">>
ports_path == <<"/kvm/vm-network/", "%s", "/ports">>
port_path == <<"/kvm/vm-network/", "%s", "/ports/", "%s">>
vm_networks_path == <<"/kvm/vm-network">>
vm_network_path == <<"/kvm/vm-network/", "%s">>
bridge_domains_path == <<"/kvm/bridge-domain">>
bridge_domain_path == <<"/kvm/bridge-domain/", "%s">>
fabric_networks_path == <<"/logical-network">>
fabric_network_path == <<"/logical-network/", "%s">>
class_events_path == <<"/kvm/events">>

\* --------------------------------------------------------------- inputs
Catalogs ==
    { <<>>,
      <<[credential_name |-> "10.0.0.1", user_name |-> "admin", password |-> "pw1"],
        [credential_name |-> "10.0.0.2", user_name |-> "oper", password |-> "pw2"]>> }

XmlNetworks == "<networks><network id='1' name='a'/><network id='2' name='b'/></networks>"

Statuses == {OK, NO_CONTENT, 400, 401, NOT_FOUND, INTERNAL_SERVER_ERROR,
             SERVICE_UNAVAILABLE}
ContentTypes ==
    { [present |-> FALSE, val |-> <<>>],
      [present |-> TRUE, val |-> <<"application/xml">>],
      [present |-> TRUE, val |-> <<"text/plain", "; charset=UTF-8">>],
      [present |-> TRUE, val |-> <<"application/json">>] }
ReplyBodies == {"", "bad config", XmlNetworks}
Responses == [status : Statuses, content_type : ContentTypes, body : ReplyBodies]

NoResponse == [status |-> 0, content_type |-> [present |-> FALSE, val |-> <<>>],
               body |-> ""]
NoRequest == [issued |-> FALSE]

\* ------------------------------------------------------ results of a call
Idle == [kind |-> "idle"]
Return(v) == [kind |-> "return", value |-> v]
Raise(e) == [kind |-> "raise", exc |-> e, has_reason |-> FALSE, reason |-> ""]
RaiseReason(e, r) == [kind |-> "raise", exc |-> e, has_reason |-> TRUE, reason |-> r]

\* ------------------------------------------------------ external services
\* cred.Store.get_username / get_password: the catalog entry of a host.
CredentialOf(host_ip) ==
    credentials[CHOOSE i \in DOMAIN credentials :
                    credentials[i].credential_name = host_ip]

\* base64.encodestring: the encoded text, which ends with a newline.
Base64(pieces) == <<"base64(">> \o pieces \o <<")", "\n">>

\* gettext's _(): the message itself unless the catalog translates it.
MessageCatalog == [m \in {} |-> ""]
Translate(msg) == IF msg \in DOMAIN MessageCatalog THEN MessageCatalog[msg] ELSE msg

\* quantum.wsgi.Serializer.serialize: the text of `data` in the wire format.
SerializerSerialize(data, content_type) ==
    [content_type |-> content_type, text_of |-> data]

\* quantum.wsgi.Serializer.deserialize with the client's metadata: a list
\* response becomes the sequence of its items, each with the attributes the
\* metadata registers for its kind; text that is not XML is rejected.
SerializerDeserialize(data, content_type) ==
    IF data = XmlNetworks
    THEN Return(PyList(<<[id |-> "1", name |-> "a"], [id |-> "2", name |-> "b"]>>))
    ELSE Raise("ExpatError")

\* What httplib does with a request body that is neither None nor a string
\* and was not serialized: Python 2.6 leaves a falsy body unsent, Python 2.7
\* sends the headers and then fails in socket.sendall.
TransportOutcomes(body) ==
    IF Truthy(body) \/ body.type \in {"NoneType", "str"}
    THEN {"sent"}
    ELSE {"sent", "TypeError"}

\* ------------------------------------------------------------ the client
\* Client._get_vsm_hosts
_get_vsm_hosts(creds) == [i \in DOMAIN creds |-> creds[i].credential_name]

\* Client._get_header
_get_header(host_ip) ==
    LET username == CredentialOf(host_ip).user_name
        password == CredentialOf(host_ip).password
        auth == Base64(<<username, ":", password>>)
    IN  [Authorization |-> <<"Basic ">> \o auth,
         ContentType |-> "application/json"]

\* Client._set_content_type
_set_content_type(fmt) ==
    <<"application/", IF fmt = None THEN format ELSE fmt.val>>

\* Client._serialize: the serialized text, or the exception it raises.
_serialize(data) ==
    IF data.type = "NoneType" THEN Return(None)
    ELSE IF data.type = "dict"
         THEN Return(SerializerSerialize(data, _set_content_type(None)))
         ELSE Raise("Exception: unable to serialize object")

\* Client._deserialize
_deserialize(data, status_code) ==
    IF status_code = NO_CONTENT THEN Return(PyStr(data))
    ELSE SerializerDeserialize(data, _set_content_type(PyStr("xml")))

\* Client._get_status_code
_get_status_code(resp) == resp.status

\* _handle_fault_response as it would be if it dropped the reply body.
_handle_fault_response_reasonless(status_code, replybody) ==
    IF status_code = INTERNAL_SERVER_ERROR
    THEN RaiseReason("VSMError", "")
    ELSE IF status_code = SERVICE_UNAVAILABLE
         THEN Raise("VSMConnectionFailed")
         ELSE Return(None)

\* Client._handle_fault_response
_handle_fault_response(status_code, replybody) ==
    IF status_code = INTERNAL_SERVER_ERROR
    THEN RaiseReason("VSMError", Translate(replybody))
    ELSE IF status_code = SERVICE_UNAVAILABLE
         THEN Raise("VSMConnectionFailed")
         ELSE Return(None)

\* The interpretation as it would be if a plain-text answer were returned.
HandleResponseReturningText(resp) ==
    LET _content_type == resp.content_type
        replybody == resp.body
        status_code == _get_status_code(resp)
    IN  IF status_code = OK /\ ~_content_type.present
        THEN Raise("TypeError")
        ELSE IF status_code = OK /\ Contains(_content_type.val, "application/xml")
        THEN _deserialize(replybody, status_code)
        ELSE IF status_code = OK /\ Contains(_content_type.val, "text/plain")
        THEN Return(PyStr(replybody))
        ELSE IF status_code \in {INTERNAL_SERVER_ERROR, NOT_FOUND,
                                 SERVICE_UNAVAILABLE}
        THEN _handle_fault_response(status_code, replybody)
        ELSE Return(None)

\* The interpretation of the response in Client._do_request (lines 321-333).
HandleResponse(resp) ==
    LET _content_type == resp.content_type
        replybody == resp.body
        status_code == _get_status_code(resp)
    IN  IF status_code = OK /\ ~_content_type.present
        THEN Raise("TypeError")   \* 'application/xml' in None
        ELSE IF status_code = OK /\ Contains(_content_type.val, "application/xml")
        THEN _deserialize(replybody, status_code)
        ELSE IF status_code = OK /\ Contains(_content_type.val, "text/plain")
        THEN Return(None)
        ELSE IF status_code \in {INTERNAL_SERVER_ERROR, NOT_FOUND,
                                 SERVICE_UNAVAILABLE}
        THEN _handle_fault_response(status_code, replybody)
        ELSE Return(None)

\* The active host as it would be if the client moved on to the last host.
ActiveHostLast == hosts[Len(hosts)]

\* The host a request is sent to, and whose credentials it carries.
ActiveHost == hosts[1]

\* _do_request as it would be if a fault made it try again.
_do_request_retrying(method, action, body, headers, params, resp, transport) ==
    LET path == <<action_prefix>> \o action
        auth == headers = None /\ hosts # <<>>
        hdrs == IF auth THEN _get_header(ActiveHost) ELSE headers
        looked == IF auth THEN {ActiveHost} ELSE {}
        serialized == _serialize(body)
        wire == IF Truthy(body)
                THEN [type |-> "str", val |-> <<serialized.value, "  ">>]
                ELSE body
        req == [issued |-> TRUE, method |-> method, path |-> path,
                host |-> ActiveHost, headers |-> hdrs, body |-> wire]
    IN  IF Truthy(body) /\ serialized.kind = "raise"
        THEN [lookups |-> looked, requests |-> <<>>,
              response |-> NoResponse, result |-> serialized]
        ELSE IF hosts = <<>>
        THEN [lookups |-> looked, requests |-> <<>>,
              response |-> NoResponse, result |-> Raise("IndexError")]
        ELSE IF transport = "TypeError"
        THEN [lookups |-> looked, requests |-> <<req>>,
              response |-> NoResponse, result |-> Raise("TypeError")]
        ELSE [lookups |-> looked,
              requests |-> IF HandleResponse(resp).kind = "raise"
                           THEN <<req, req>> ELSE <<req>>,
              response |-> resp, result |-> HandleResponse(resp)]

\* Client._do_request.  `resp` is the answer the VSM gives if it is asked and
\* `transport` what httplib does with the body.  The value is what the call
\* did: the credential lookups, the requests issued, the response consumed,
\* and the return value or exception.
_do_request(method, action, body, headers, params, resp, transport) ==
    LET path == <<action_prefix>> \o action
        auth == headers = None /\ hosts # <<>>
        hdrs == IF auth THEN _get_header(ActiveHost) ELSE headers
        looked == IF auth THEN {ActiveHost} ELSE {}
        serialized == _serialize(body)
        wire == IF Truthy(body)
                THEN [type |-> "str", val |-> <<serialized.value, "  ">>]
                ELSE body
        req == [issued |-> TRUE, method |-> method, path |-> path,
                host |-> ActiveHost, headers |-> hdrs, body |-> wire]
    IN  IF Truthy(body) /\ serialized.kind = "raise"
        THEN [lookups |-> looked, requests |-> <<>>,
              response |-> NoResponse, result |-> serialized]
        ELSE IF hosts = <<>>
        THEN [lookups |-> looked, requests |-> <<>>,
              response |-> NoResponse, result |-> Raise("IndexError")]
        ELSE IF transport = "TypeError"
        THEN [lookups |-> looked, requests |-> <<req>>,
              response |-> NoResponse, result |-> Raise("TypeError")]
        ELSE [lookups |-> looked, requests |-> <<req>>,
              response |-> resp, result |-> HandleResponse(resp)]

\* Client._delete, _get, _post, _put
_delete(action, body, headers, params, resp, transport) ==
    _do_request("DELETE", action, body, headers, params, resp, transport)
_get(action, body, headers, params, resp, transport) ==
    _do_request("GET", action, body, headers, params, resp, transport)
_post(action, body, headers, params, resp, transport) ==
    _do_request("POST", action, body, headers, params, resp, transport)
_put(action, body, headers, params, resp, transport) ==
    _do_request("PUT", action, body, headers, params, resp, transport)

\* The return of facade call `c`, which ends as `o`, the value of _do_request.
Finish(c, o) ==
    /\ ncalls' = ncalls + 1
    /\ call' = c
    /\ requests' = requests \o [i \in DOMAIN o.requests |->
                                  [call |-> ncalls + 1,
                                   host |-> o.requests[i].host]]
    /\ sent' = IF o.requests = <<>>
               THEN NoRequest
               ELSE o.requests[Len(o.requests)]
    /\ response' = o.response
    /\ result' = o.result
    /\ lookups' = lookups \cup o.lookups
    /\ UNCHANGED <<credentials, hosts, vsm>>

\* Client.__init__
Init ==
    /\ credentials \in Catalogs
    /\ hosts = _get_vsm_hosts(credentials)
    /\ vsm \in Responses
    /\ events_path = class_events_path
    /\ ncalls = 0
    /\ call = [op |-> "none"]
    /\ requests = <<>>
    /\ sent = NoRequest
    /\ response = NoResponse
    /\ result = Idle
    /\ lookups = {}

\* ----------------------------------------------------- inputs of the calls
NETWORK_TYPE == "provider:network_type"
SEGMENTATION_ID == "provider:segmentation_id"
MULTICAST_IP == "n1kv:multicast_ip"

ParamSets == { {}, {<<"page", "2">>} }
EventTypes == {None, PyStr(""), PyStr("port_profile")}
NetworkTypes == {TYPE_VLAN, TYPE_VXLAN, "gre"}
Networks ==
    { ("name" :> "net1") @@ ("id" :> "nid1") @@ (NETWORK_TYPE :> t)
        @@ (SEGMENTATION_ID :> 100) @@ (MULTICAST_IP :> "224.0.0.9")
      : t \in NetworkTypes }
Profiles == { [name |-> "prof1", id |-> "pid1"] }
Ports == { [id |-> "port1", network_id |-> "nid1", mac_address |-> "fa:16:3e:00:00:01"] }
SegmentNames == {"net1"}
PoolNames == {"prof1"}
SubnetNames == {"sub1"}
VmNetworkNames == {"vmn1"}
PortIds == {"port1"}
BridgeDomainNames == {"net1_bd"}
Cidrs ==
    { None,
      [type |-> "str", val |-> "10.0.0.0/24",
       address |-> <<10, 0, 0, 0>>, prefixlen |-> 24],
      [type |-> "str", val |-> "192.168.1.77/26",
       address |-> <<192, 168, 1, 77>>, prefixlen |-> 26] }
AllocationPools ==
    { PyList(<<>>), PyList(<<[start |-> "10.0.0.2", end |-> "10.0.0.254"]>>) }
Subnets ==
    { [name |-> "sub1", cidr |-> c, allocation_pools |-> a, gateway_ip |-> "10.0.0.1"]
      : c \in Cidrs, a \in AllocationPools }
\* Bodies a caller hands to the update_* methods.
UpdateBodies ==
    { PyDict([name |-> "renamed"]), PyStr("text"), PyStr(""),
      PyInt(7), PyInt(0), PyList(<<"x">>), PyList(<<>>) }

\* netaddr.IPNetwork(cidr).netmask and .network, as dotted quads.
HostBits(prefixlen, i) ==
    LET netbits == prefixlen - 8 * (i - 1)
    IN  8 - (IF netbits < 0 THEN 0 ELSE IF netbits > 8 THEN 8 ELSE netbits)
IPNetworkNetmask(cidr) ==
    [i \in 1..4 |-> 256 - 2 ^ HostBits(cidr.prefixlen, i)]
IPNetworkNetwork(cidr) ==
    [i \in 1..4 |-> cidr.address[i]
                      - (cidr.address[i] % (2 ^ HostBits(cidr.prefixlen, i)))]

\* ------------------------------------------------------ the facade methods
list_profiles ==
    \E _params \in ParamSets :
        /\ ncalls < MaxCalls
        /\ Finish([op |-> "list_profiles", params |-> _params],
                  _get(profiles_path, None, None, _params, vsm, "sent"))
        /\ UNCHANGED events_path

list_events ==
    \E event_type \in EventTypes, _params \in ParamSets :
        /\ ncalls < MaxCalls
        /\ events_path' = IF Truthy(event_type)
                          THEN events_path \o <<"?type=", event_type.val>>
                          ELSE events_path
        /\ Finish([op |-> "list_events", event_type |-> event_type,
                   params |-> _params],
                  _get(events_path', None, None, _params, vsm, "sent"))

create_bridge_domain ==
    \E network \in Networks, _params \in ParamSets :
        LET body == [name |-> <<network["name"], "_bd">>,
                     segmentId |-> network[SEGMENTATION_ID],
                     groupIp |-> network[MULTICAST_IP]]
        IN  /\ ncalls < MaxCalls
            /\ Finish([op |-> "create_bridge_domain", network |-> network,
                       params |-> _params, body |-> body],
                      _post(bridge_domains_path, PyDict(body), None, _params,
                            vsm, "sent"))
            /\ UNCHANGED events_path

delete_bridge_domain ==
    \E name \in BridgeDomainNames :
        /\ ncalls < MaxCalls
        /\ Finish([op |-> "delete_bridge_domain", name |-> name],
                  _delete(Format(bridge_domain_path, <<name>>), None, None,
                          None, vsm, "sent"))
        /\ UNCHANGED events_path

\* The body as it would be if every network that is not a VLAN got a bridge
\* domain.
NetworkSegmentBodyNotVlan(network, profile) ==
    LET body0 == [name |-> network["name"],
                  id |-> network["id"],
                  networkSegmentPool |-> profile.name]
        body1 == IF network[NETWORK_TYPE] = TYPE_VLAN
                 THEN Update(body0, "vlan", network[SEGMENTATION_ID])
                 ELSE body0
    IN  IF network[NETWORK_TYPE] # TYPE_VLAN
        THEN Update(body1, "bridgeDomain", <<network["name"], "_bd">>)
        ELSE body1

\* The body create_network_segment builds (lines 156-162).
NetworkSegmentBody(network, profile) ==
    LET body0 == [name |-> network["name"],
                  id |-> network["id"],
                  networkSegmentPool |-> profile.name]
        body1 == IF network[NETWORK_TYPE] = TYPE_VLAN
                 THEN Update(body0, "vlan", network[SEGMENTATION_ID])
                 ELSE body0
    IN  IF network[NETWORK_TYPE] = TYPE_VXLAN
        THEN Update(body1, "bridgeDomain", <<network["name"], "_bd">>)
        ELSE body1

create_network_segment ==
    \E network \in Networks, profile \in Profiles, _params \in ParamSets :
        LET body == NetworkSegmentBody(network, profile)
        IN  /\ ncalls < MaxCalls
            /\ Finish([op |-> "create_network_segment", network |-> network,
                       profile |-> profile, params |-> _params, body |-> body],
                      _post(network_segments_path, PyDict(body), None, _params,
                            vsm, "sent"))
            /\ UNCHANGED events_path

update_network_segment ==
    \E network_segment \in SegmentNames, body \in UpdateBodies :
        \E transport \in TransportOutcomes(body) :
            /\ ncalls < MaxCalls
            /\ Finish([op |-> "update_network_segment",
                       network_segment |-> network_segment, body |-> body],
                      _post(Format(network_segment_path, <<network_segment>>),
                            body, None, None, vsm, transport))
            /\ UNCHANGED events_path

delete_network_segment ==
    \E network_segment \in SegmentNames :
        /\ ncalls < MaxCalls
        /\ Finish([op |-> "delete_network_segment",
                   network_segment |-> network_segment],
                  _delete(Format(network_segment_path, <<network_segment>>),
                          None, None, None, vsm, "sent"))
        /\ UNCHANGED events_path

create_fabric_network ==
    \E profile \in Profiles, _params \in ParamSets :
        LET body == [name |-> profile.name]
        IN  /\ ncalls < MaxCalls
            /\ Finish([op |-> "create_fabric_network", profile |-> profile,
                       params |-> _params, body |-> body],
                      _post(fabric_networks_path, PyDict(body), None, _params,
                            vsm, "sent"))
            /\ UNCHANGED events_path

delete_fabric_network ==
    \E profile \in Profiles :
        /\ ncalls < MaxCalls
        /\ Finish([op |-> "delete_fabric_network", profile |-> profile],
                  _delete(Format(fabric_network_path, <<profile.name>>), None,
                          None, None, vsm, "sent"))
        /\ UNCHANGED events_path

create_network_segment_pool ==
    \E profile \in Profiles, _params \in ParamSets :
        LET body == [name |-> profile.name,
                     id |-> profile.id,
                     logicalNetwork |-> profile.name]
        IN  /\ ncalls < MaxCalls
            /\ Finish([op |-> "create_network_segment_pool",
                       profile |-> profile, params |-> _params, body |-> body],
                      _post(network_segment_pools_path, PyDict(body), None,
                            _params, vsm, "sent"))
            /\ UNCHANGED events_path

update_network_segment_pool ==
    \E network_segment_pool \in PoolNames, body \in UpdateBodies :
        \E transport \in TransportOutcomes(body) :
            /\ ncalls < MaxCalls
            /\ Finish([op |-> "update_network_segment_pool",
                       network_segment_pool |-> network_segment_pool,
                       body |-> body],
                      _post(Format(network_segment_pool_path,
                                   <<network_segment_pool>>),
                            body, None, None, vsm, transport))
            /\ UNCHANGED events_path

delete_network_segment_pool ==
    \E network_segment_pool \in PoolNames :
        /\ ncalls < MaxCalls
        /\ Finish([op |-> "delete_network_segment_pool",
                   network_segment_pool |-> network_segment_pool],
                  _delete(Format(network_segment_pool_path,
                                 <<network_segment_pool>>),
                          None, None, None, vsm, "sent"))
        /\ UNCHANGED events_path

\* The body create_ip_pool builds (lines 220-239).
IpPoolBody(subnet) ==
    LET netmask == IF Truthy(subnet.cidr)
                   THEN [type |-> "str", dotted |-> IPNetworkNetmask(subnet.cidr)]
                   ELSE PyStr("")
        network_address ==
                   IF Truthy(subnet.cidr)
                   THEN [type |-> "str", dotted |-> IPNetworkNetwork(subnet.cidr)]
                   ELSE PyStr("")
        address_range_start ==
                   IF Truthy(subnet.allocation_pools)
                   THEN PyStr(subnet.allocation_pools.val[1].start)
                   ELSE None
        address_range_end ==
                   IF Truthy(subnet.allocation_pools)
                   THEN PyStr(subnet.allocation_pools.val[1].end)
                   ELSE None
    IN  [addressRangeStart |-> address_range_start,
         addressRangeEnd |-> address_range_end,
         ipAddressSubnet |-> netmask,
         name |-> subnet.name,
         gateway |-> subnet.gateway_ip,
         networkAddress |-> network_address]

create_ip_pool ==
    \E subnet \in Subnets, _params \in ParamSets :
        LET body == IpPoolBody(subnet)
        IN  /\ ncalls < MaxCalls
            /\ Finish([op |-> "create_ip_pool", subnet |-> subnet,
                       params |-> _params, body |-> body],
                      _post(ip_pools_path, PyDict(body), None, _params, vsm,
                            "sent"))
            /\ UNCHANGED events_path

delete_ip_pool ==
    \E subnet_name \in SubnetNames :
        /\ ncalls < MaxCalls
        /\ Finish([op |-> "delete_ip_pool", subnet_name |-> subnet_name],
                  _delete(Format(ip_pool_path, <<subnet_name>>), None, None,
                          None, vsm, "sent"))
        /\ UNCHANGED events_path

create_vm_network ==
    \E port \in Ports, name \in VmNetworkNames, policy_profile \in Profiles,
       network_name \in SegmentNames, _params \in ParamSets :
        LET body == [name |-> name,
                     networkSegmentId |-> port.network_id,
                     networkSegment |-> network_name,
                     portProfile |-> policy_profile.name,
                     portProfileId |-> policy_profile.id]
        IN  /\ ncalls < MaxCalls
            /\ Finish([op |-> "create_vm_network", port |-> port,
                       name |-> name, params |-> _params, body |-> body],
                      _post(vm_networks_path, PyDict(body), None, _params,
                            vsm, "sent"))
            /\ UNCHANGED events_path

delete_vm_network ==
    \E vm_network_name \in VmNetworkNames :
        /\ ncalls < MaxCalls
        /\ Finish([op |-> "delete_vm_network",
                   vm_network_name |-> vm_network_name],
                  _delete(Format(vm_network_path, <<vm_network_name>>), None,
                          None, None, vsm, "sent"))
        /\ UNCHANGED events_path

create_n1kv_port ==
    \E port \in Ports, name \in VmNetworkNames, _params \in ParamSets :
        LET body == [id |-> port.id, macAddress |-> port.mac_address]
        IN  /\ ncalls < MaxCalls
            /\ Finish([op |-> "create_n1kv_port", port |-> port, name |-> name,
                       params |-> _params, body |-> body],
                      _post(Format(ports_path, <<name>>), PyDict(body), None,
                            _params, vsm, "sent"))
            /\ UNCHANGED events_path

update_n1kv_port ==
    \E vm_network_name \in VmNetworkNames, port_id \in PortIds,
       body \in UpdateBodies :
        \E transport \in TransportOutcomes(body) :
            /\ ncalls < MaxCalls
            /\ Finish([op |-> "update_n1kv_port",
                       vm_network_name |-> vm_network_name,
                       port_id |-> port_id, body |-> body],
                      _post(Format(port_path, <<vm_network_name, port_id>>),
                            body, None, None, vsm, transport))
            /\ UNCHANGED events_path

delete_n1kv_port ==
    \E vm_network_name \in VmNetworkNames, port_id \in PortIds :
        /\ ncalls < MaxCalls
        /\ Finish([op |-> "delete_n1kv_port",
                   vm_network_name |-> vm_network_name, port_id |-> port_id],
                  _delete(Format(port_path, <<vm_network_name, port_id>>),
                          None, None, None, vsm, "sent"))
        /\ UNCHANGED events_path

\* The caller has taken the last call's outcome and, before the next call,
\* the VSM's condition changes: it will answer a request differently.
VsmChanges ==
    \E resp \in Responses \ {vsm} :
        /\ ncalls < MaxCalls
        /\ call.op # "none"
        /\ vsm' = resp
        /\ call' = [op |-> "none"]
        /\ sent' = NoRequest
        /\ response' = NoResponse
        /\ result' = Idle
        /\ UNCHANGED <<credentials, hosts, events_path, ncalls, requests, lookups>>

Next ==
    \/ VsmChanges
    \/ list_profiles
    \/ list_events
    \/ create_bridge_domain
    \/ delete_bridge_domain
    \/ create_network_segment
    \/ update_network_segment
    \/ delete_network_segment
    \/ create_fabric_network
    \/ delete_fabric_network
    \/ create_network_segment_pool
    \/ update_network_segment_pool
    \/ delete_network_segment_pool
    \/ create_ip_pool
    \/ delete_ip_pool
    \/ create_vm_network
    \/ delete_vm_network
    \/ create_n1kv_port
    \/ update_n1kv_port
    \/ delete_n1kv_port

Spec == Init /\ [][Next]_vars

\* ---------------------------------------------------------------- claims
DeleteOps ==
    {"delete_bridge_domain", "delete_network_segment", "delete_fabric_network",
     "delete_network_segment_pool", "delete_ip_pool", "delete_vm_network",
     "delete_n1kv_port"}
UpdateOps ==
    {"update_network_segment", "update_network_segment_pool", "update_n1kv_port"}
ParamOps ==
    {"list_profiles", "list_events", "create_bridge_domain",
     "create_network_segment", "create_fabric_network",
     "create_network_segment_pool", "create_ip_pool", "create_vm_network",
     "create_n1kv_port"}

Answered == response # NoResponse
IsXml(ct) == ct.present /\ Contains(ct.val, "application/xml")
IsPlain(ct) == ct.present /\ Contains(ct.val, "text/plain")
TwoNetworks == PyList(<<[id |-> "1", name |-> "a"], [id |-> "2", name |-> "b"]>>)
EndsWith(s, t) ==
    Len(t) <= Len(s) /\ SubSeq(s, Len(s) - Len(t) + 1, Len(s)) = t
\* The query string of a one-parameter mapping: ?key=value.
QueryString(ps) ==
    LET kv == CHOOSE x \in ps : TRUE IN <<"?", kv[1], "=", kv[2]>>

\* C1: a list_events call requests /api/n1k/kvm/events?type=T when it is given
\* the event type T and /api/n1k/kvm/events when it is given none, whatever
\* list_events calls preceded it on the same client.
C1_EventsPathStateless ==
    (call.op = "list_events" /\ sent.issued) =>
        sent.path = <<action_prefix>> \o class_events_path
                      \o (IF Truthy(call.event_type)
                          THEN <<"?type=", call.event_type.val>>
                          ELSE <<>>)

\* C2: a call that the VSM answers with 404 Not Found ends by raising a fault,
\* never by returning normally.
C2_NotFoundRaises ==
    (Answered /\ response.status = NOT_FOUND) => result.kind = "raise"

\* C3: a call answered with a (status, content type) pair other than 200+XML,
\* 200+plain text, 500, 404 and 503 returns nothing and raises no error; a 200
\* answer with no content-type header is such a pair.
C3_UnhandledIsSilent ==
    ( /\ Answered
      /\ ~(response.status = OK /\ IsXml(response.content_type))
      /\ ~(response.status = OK /\ IsPlain(response.content_type))
      /\ response.status \notin {INTERNAL_SERVER_ERROR, NOT_FOUND,
                                 SERVICE_UNAVAILABLE} )
    => result = Return(None)

\* C4: a call answered with 500 and body B raises VSMError with reason B, and a
\* call answered with 503 raises VSMConnectionFailed with no reason, whatever
\* the body and the content type; nothing is returned.
C4_FaultTranslation ==
    /\ (Answered /\ response.status = INTERNAL_SERVER_ERROR) =>
           result = [kind |-> "raise", exc |-> "VSMError", has_reason |-> TRUE,
                     reason |-> response.body]
    /\ (Answered /\ response.status = SERVICE_UNAVAILABLE) =>
           result = [kind |-> "raise", exc |-> "VSMConnectionFailed",
                     has_reason |-> FALSE, reason |-> ""]
C4_Witness ==
    /\ call.op = "delete_ip_pool"
    /\ response.status = INTERNAL_SERVER_ERROR
    /\ response.body = "bad config"
    /\ ~response.content_type.present
    /\ result.kind = "raise" /\ result.exc = "VSMError"
    /\ result.reason = "bad config"

\* C5: an update_* call whose body is not a mapping fails with the
\* serialization error and issues no HTTP request (stated for a client that
\* knows a host, where nothing else can fail first).
C5_NonMappingBodyFails ==
    (hosts # <<>> /\ call.op \in UpdateOps /\ call.body.type # "dict") =>
        /\ result.kind = "raise"
        /\ result.exc = "Exception: unable to serialize object"
        /\ ~sent.issued

\* C6: the host list is the one read from the credential catalog at
\* construction; every request ever issued went to its first host and carries
\* that host's credentials, and no other host's credentials were looked up.
C6_FirstHostOnly ==
    /\ hosts = [i \in DOMAIN credentials |-> credentials[i].credential_name]
    /\ \A i \in DOMAIN requests : requests[i].host = hosts[1]
    /\ lookups \subseteq (IF hosts = <<>> THEN {} ELSE {hosts[1]})
    /\ sent.issued =>
          /\ sent.host = hosts[1]
          /\ sent.headers.Authorization =
                <<"Basic ", "base64(", credentials[1].user_name, ":",
                  credentials[1].password, ")", "\n">>
C6_Witness ==
    /\ Len(hosts) = 2
    /\ Len(requests) = 2
    /\ requests[1].host = "10.0.0.1" /\ requests[2].host = "10.0.0.1"
    /\ sent.issued /\ sent.host = "10.0.0.1"
    /\ result.kind = "raise" /\ result.exc = "VSMConnectionFailed"
    /\ lookups = {"10.0.0.1"}

\* C7 as stated: a delete_* call never returns a payload, whatever the VSM
\* answers.
C7_DeleteReturnsNothing ==
    (call.op \in DeleteOps /\ result.kind = "return") => result.value = None
\* C7 amended: a delete_* call returns what the request yields: the
\* deserialized body when the VSM answers 200 with an XML content type, and
\* nothing for every other answer.
C7_DeleteReturnsRequestResult ==
    (call.op \in DeleteOps /\ result.kind = "return") =>
        IF response.status = OK /\ IsXml(response.content_type)
        THEN result.value # None
        ELSE result.value = None
C7_Witness ==
    /\ call.op = "delete_network_segment"
    /\ response.status = OK
    /\ IsXml(response.content_type)
    /\ response.body = XmlNetworks
    /\ result.kind = "return"
    /\ result.value = TwoNetworks

\* C8: a call that is given query parameters requests the prefix plus the
\* resource template followed by the query string built from them; a call
\* given none requests a path with no query string.
C8_QueryStringSent ==
    (call.op \in ParamOps /\ sent.issued) =>
        IF call.params # {}
        THEN EndsWith(sent.path, QueryString(call.params))
        ELSE call.op # "list_events" => ~Contains(sent.path, "?")

\* C9: the body create_network_segment builds holds name, id and
\* networkSegmentPool; a vlan field (the segmentation id) and no bridgeDomain
\* for a VLAN network; a bridgeDomain field <name>_bd and no vlan for a VXLAN
\* network; neither for any other type; and it is the body that is sent.
C9_SegmentBody ==
    call.op = "create_network_segment" =>
        LET b == call.body
            t == call.network[NETWORK_TYPE]
        IN  /\ {"name", "id", "networkSegmentPool"} \subseteq DOMAIN b
            /\ b["name"] = call.network["name"]
            /\ b["id"] = call.network["id"]
            /\ b["networkSegmentPool"] = call.profile.name
            /\ DOMAIN b \subseteq {"name", "id", "networkSegmentPool", "vlan",
                                   "bridgeDomain"}
            /\ ("vlan" \in DOMAIN b) <=> (t = "vlan")
            /\ ("bridgeDomain" \in DOMAIN b) <=> (t = "vxlan")
            /\ t = "vlan" => b["vlan"] = call.network[SEGMENTATION_ID]
            /\ t = "vxlan" => b["bridgeDomain"] = <<call.network["name"], "_bd">>
            /\ ~("vlan" \in DOMAIN b /\ "bridgeDomain" \in DOMAIN b)
            /\ sent.issued => sent.body.val[1].text_of.val = b
C9_Witness ==
    /\ call.op = "create_network_segment"
    /\ call.network[NETWORK_TYPE] = "vxlan"
    /\ sent.issued
    /\ sent.body.val[1].text_of.val["bridgeDomain"] = <<"net1", "_bd">>
    /\ DOMAIN call.body = {"name", "id", "networkSegmentPool", "bridgeDomain"}

\* The call is one whose body fails to serialize.
SerializationFails(c) ==
    c.op \in UpdateOps /\ Truthy(c.body) /\ c.body.type # "dict"

\* C10: every request in the log belongs to a different call and the log is in
\* call order, so no call issues two requests; the call just made issued one
\* exactly when its request is the last of the log, and it did issue one if the
\* host list is not empty and its body did not fail to serialize - also when
\* it ended with a fault or an unhandled answer.
C10_OneRequestPerCall ==
    /\ Len(requests) <= ncalls
    /\ \A i \in DOMAIN requests :
          /\ requests[i].call \in 1..ncalls
          /\ \A j \in DOMAIN requests : i < j => requests[i].call < requests[j].call
    /\ call.op # "none" =>
          /\ sent.issued <=>
                (requests # <<>> /\ requests[Len(requests)].call = ncalls)
          /\ (hosts # <<>> /\ ~SerializationFails(call)) => sent.issued
C10_Witness ==
    /\ ncalls = 2
    /\ Len(requests) = 2
    /\ requests[1].call = 1 /\ requests[2].call = 2
    /\ response.status = NOT_FOUND
    /\ result = Return(None)
====
